---- MODULE Spec2Model ----
(***************************************************************************)
(* A model of argcompgen (src/src/argcompgen/main.py): the definition      *)
(* loader load_parser_safely, the command line entry point main, and the   *)
(* two generators generate_bash_completion and generate_zsh_completion.    *)
(*                                                                         *)
(* Text is modelled as sequences of one-character strings, so that the     *)
(* concatenations the generators perform are computed and not assumed.     *)
(***************************************************************************)
EXTENDS Integers, Sequences, FiniteSets, TLC

\* ------------------------------------------------------------------------
\* Bounds of the model
\* ------------------------------------------------------------------------

\* Number of load_parser_safely / main invocations in one process.
MaxCalls == 3

\* ------------------------------------------------------------------------
\* Part A. The loader and main
\* ------------------------------------------------------------------------

VARIABLES
    parse_args,           \* argparse.ArgumentParser.parse_args: "original" or "fake"
    captured_parser,      \* the module global captured_parser: "None" or a parser
    original_parse_args,  \* the local of the invocation in flight
    pc,                   \* position of the process
    caller,               \* who invoked the loader: "host" or "main"
    target,               \* the target program being run by runpy.run_path
    exc,                  \* the exception in flight, or NoExc
    guard_fired,          \* fake_parse_args was invoked during this invocation
    printed,              \* diagnostics printed by the invocation in flight / last
    ret,                  \* how the last loader invocation ended
    calls,                \* loader invocations started so far
    argv,                 \* sys.argv[1:] of the main run
    fs,                   \* the two output files, by shell
    fs0,                  \* fs when the main run started
    main_status,          \* "none", "running", "completed", "failed"
    escaped               \* what left the target's code in this invocation

loaderVars == <<parse_args, captured_parser, original_parse_args, pc, caller,
                target, exc, guard_fired, printed, ret, calls, argv, fs, fs0,
                main_status, escaped>>

\* The state of a generator run (Part B).
VARIABLES
    parser,     \* the definition handed to the generator: a tree of parsers
    gen_pc,     \* "idle", "start", "bash", "zsh", "completed"
    prog,       \* prog_name
    bash_out,   \* what generate_bash_completion returned
    zsh_out,    \* what generate_zsh_completion returned
    comp,       \* a completion request made to the bash script
    handled     \* index in bash_out of the function that answered it

genVars == <<parser, gen_pc, prog, bash_out, zsh_out, comp, handled>>

vars == <<loaderVars, genVars>>

\* Target programs. Each builds one parser; in Part A the parser is named
\* after its script, and what the generators make of a parser is Part B.
Scripts == {"A", "B"}

None == "None"

NoExc == [type |-> "none", guard |-> FALSE, code |-> 0]

\* The exception types a target's module-level code may raise.
\* StopIteration and ValueError derive from Exception; KeyboardInterrupt and
\* SystemExit derive from BaseException only.
TargetRaises == {"StopIteration", "ValueError", "KeyboardInterrupt"}

IsException(t) == t \in {"StopIteration", "ValueError"}

Shells == {"bash", "zsh"}

\* sys.argv[1:] as main sees it: a wrong count, or <path, shell>.
ArgvSet == {<<>>} \cup {<<s>> : s \in Scripts}
           \cup {<<s, sh>> : s \in Scripts, sh \in Shells \cup {"fish"}}

NoRet == [kind |-> "none", value |-> None, exc |-> NoExc]

NoTree == [n |-> 1, parent |-> <<0>>, name |-> << <<>> >>, help |-> <<TRUE>>,
           cfg |-> <<[actions |-> <<>>, groups |-> <<>>]>>]

NoComp == [node |-> 0, words |-> <<>>, cword |-> 0]

LoaderInit ==
    /\ parse_args = "original"
    /\ captured_parser = None
    /\ original_parse_args = "original"
    /\ pc = "idle"
    /\ caller = "host"
    /\ target = "A"
    /\ exc = NoExc
    /\ guard_fired = FALSE
    /\ printed = <<>>
    /\ ret = NoRet
    /\ calls = 0
    /\ argv = <<>>
    /\ fs \in [Shells -> {"absent", "old"}]
    /\ fs0 = fs
    /\ main_status = "none"
    /\ escaped = NoExc
    /\ parser = NoTree
    /\ gen_pc = "idle"
    /\ prog = <<>>
    /\ bash_out = <<>>
    /\ zsh_out = <<>>
    /\ comp = NoComp
    /\ handled = 0

\* load_parser_safely, lines 13-23: remember the entry point and install the guard.
EnterLoader(path, who) ==
    /\ original_parse_args' = parse_args
    /\ parse_args' = "fake"
    /\ target' = path
    /\ caller' = who
    /\ exc' = NoExc
    /\ guard_fired' = FALSE
    /\ printed' = <<>>
    /\ ret' = NoRet
    /\ calls' = calls + 1
    /\ escaped' = NoExc
    /\ pc' = "L_run"
    /\ UNCHANGED captured_parser

\* A host (a test, an importing program) calls load_parser_safely(path).
CallLoad(path) ==
    /\ UNCHANGED genVars
    /\ pc = "idle"
    /\ calls < MaxCalls
    /\ EnterLoader(path, "host")
    /\ UNCHANGED <<argv, fs, fs0, main_status>>

\* fake_parse_args, lines 16-20: the target reaches parser.parse_args().
TargetParseArgs ==
    /\ UNCHANGED genVars
    /\ pc = "L_run"
    /\ parse_args = "fake"
    /\ captured_parser' = target
    /\ guard_fired' = TRUE
    /\ exc' = [type |-> "StopIteration", guard |-> TRUE, code |-> 0]
    /\ escaped' = exc'
    /\ pc' = "L_handle"
    /\ UNCHANGED <<parse_args, original_parse_args, caller, target, printed,
                   ret, calls, argv, fs, fs0, main_status>>

\* line 27: the target's module-level code raises an exception of its own.
TargetRaise(t) ==
    /\ UNCHANGED genVars
    /\ pc = "L_run"
    /\ exc' = [type |-> t, guard |-> FALSE, code |-> 0]
    /\ escaped' = exc'
    /\ pc' = "L_handle"
    /\ UNCHANGED <<parse_args, captured_parser, original_parse_args, caller,
                   target, guard_fired, printed, ret, calls, argv, fs, fs0,
                   main_status>>

\* line 27: the target calls sys.exit(code).
TargetExit(code) ==
    /\ UNCHANGED genVars
    /\ pc = "L_run"
    /\ exc' = [type |-> "SystemExit", guard |-> FALSE, code |-> code]
    /\ escaped' = exc'
    /\ pc' = "L_handle"
    /\ UNCHANGED <<parse_args, captured_parser, original_parse_args, caller,
                   target, guard_fired, printed, ret, calls, argv, fs, fs0,
                   main_status>>

\* line 27: the target runs to its end without calling parse_args.
TargetComplete ==
    /\ UNCHANGED genVars
    /\ pc = "L_run"
    /\ pc' = "L_finally"
    /\ UNCHANGED <<parse_args, captured_parser, original_parse_args, caller,
                   target, exc, guard_fired, printed, ret, calls, argv, fs, fs0,
                   main_status, escaped>>

\* lines 28-33: the except clauses, tried in order.
Handle ==
    /\ UNCHANGED genVars
    /\ pc = "L_handle"
    /\ IF exc.type = "StopIteration"
         THEN /\ exc' = NoExc
              /\ printed' = printed
         ELSE IF IsException(exc.type)
           THEN /\ printed' = Append(printed, "Error loading script")
                /\ exc' = [type |-> "SystemExit", guard |-> FALSE, code |-> 1]
           ELSE /\ exc' = exc
                /\ printed' = printed
    /\ pc' = "L_finally"
    /\ UNCHANGED <<parse_args, captured_parser, original_parse_args, caller,
                   target, guard_fired, ret, calls, argv, fs, fs0, main_status, escaped>>

\* An exception leaves the loader: a host catches it, main dies of it.
Propagate ==
    /\ ret' = [kind |-> "raised", value |-> None, exc |-> exc]
    /\ exc' = NoExc
    /\ pc' = "idle"
    /\ main_status' = IF caller = "main" THEN "failed" ELSE main_status

\* The finally clause with the restoration left behind the try statement,
\* where only the normal path reaches it.
FinallyOnNormalPathOnly ==
    /\ UNCHANGED genVars
    /\ pc = "L_finally"
    /\ IF exc = NoExc
         THEN /\ parse_args' = original_parse_args
              /\ pc' = "L_check"
              /\ UNCHANGED <<exc, ret, main_status>>
         ELSE /\ parse_args' = parse_args
              /\ Propagate
    /\ UNCHANGED <<captured_parser, original_parse_args, caller, target,
                   guard_fired, printed, calls, argv, fs, fs0, escaped>>

\* lines 34-36: the finally clause, then the exception in flight goes on.
Finally ==
    /\ UNCHANGED genVars
    /\ pc = "L_finally"
    /\ parse_args' = original_parse_args
    /\ IF exc = NoExc
         THEN /\ pc' = "L_check"
              /\ UNCHANGED <<exc, ret, main_status>>
         ELSE Propagate
    /\ UNCHANGED <<captured_parser, original_parse_args, caller, target,
                   guard_fired, printed, calls, argv, fs, fs0, escaped>>

\* lines 38-41: the check of the global, and the return.
Return ==
    /\ UNCHANGED genVars
    /\ pc = "L_check"
    /\ printed' = IF captured_parser = None
                    THEN Append(printed, "parser not found")
                    ELSE printed
    /\ ret' = [kind |-> "returned", value |-> captured_parser, exc |-> NoExc]
    /\ pc' = IF caller = "main" THEN "M_shell" ELSE "idle"
    /\ UNCHANGED <<parse_args, captured_parser, original_parse_args, caller,
                   target, exc, guard_fired, calls, argv, fs, fs0, main_status, escaped>>

\* main, lines 258-263: the argument count, then the loader.
MainStart(args) ==
    /\ UNCHANGED genVars
    /\ pc = "idle"
    /\ calls < MaxCalls
    /\ argv' = args
    /\ fs0' = fs
    /\ IF Len(args) # 2
         THEN /\ main_status' = "failed"
              /\ printed' = <<"Usage">>
              /\ ret' = NoRet
              /\ calls' = calls + 1
              /\ escaped' = NoExc
              /\ UNCHANGED <<parse_args, captured_parser, original_parse_args,
                             pc, caller, target, exc, guard_fired>>
         ELSE /\ main_status' = "running"
              /\ EnterLoader(args[1], "main")
    /\ UNCHANGED fs

\* main, lines 266-274: the shell is chosen; open(..., "w") creates or empties
\* the output file before the generator is called.
MainShell ==
    /\ UNCHANGED genVars
    /\ pc = "M_shell"
    /\ IF argv[2] \in Shells
         THEN /\ fs' = [fs EXCEPT ![argv[2]] = "empty"]
              /\ pc' = "M_gen"
              /\ UNCHANGED <<printed, main_status>>
         ELSE /\ printed' = Append(printed, "Error: shell")
              /\ main_status' = "failed"
              /\ pc' = "idle"
              /\ UNCHANGED fs
    /\ UNCHANGED <<parse_args, captured_parser, original_parse_args, caller,
                   target, exc, guard_fired, ret, calls, argv, fs0, escaped>>

\* main, lines 268 and 271: the generator reads parser._actions (bash) or
\* parser._mutually_exclusive_groups (zsh), which None does not have; else the
\* text is written and the file closed.
MainGenerate ==
    /\ UNCHANGED genVars
    /\ pc = "M_gen"
    /\ IF ret.value = None
         THEN /\ main_status' = "failed"
              /\ UNCHANGED fs
         ELSE /\ main_status' = "completed"
              /\ fs' = [fs EXCEPT ![argv[2]] = "text"]
    /\ pc' = "idle"
    /\ UNCHANGED <<parse_args, captured_parser, original_parse_args, caller,
                   target, exc, guard_fired, printed, ret, calls, argv, fs0, escaped>>

\* ------------------------------------------------------------------------
\* Part B. The generators
\* ------------------------------------------------------------------------

\* The sequences of ss one after the other (str.join, list.extend).
RECURSIVE Concat(_)
Concat(ss) == IF Len(ss) = 0 THEN <<>> ELSE Head(ss) \o Concat(Tail(ss))

\* str.replace for a one-character pattern.
Replace(s, from, to) == [k \in 1..Len(s) |-> IF s[k] = from THEN to ELSE s[k]]

Range(s) == {s[k] : k \in 1..Len(s)}

Idx(n) == [k \in 1..n |-> k]

\* A parser tree is kept flat: parsers 1..n in the order they were created,
\* 1 the root; parent[j], name[j] and help[j] are what add_parser was given
\* for parser j; cfg[j] holds its _actions (without the subparsers action)
\* and its _mutually_exclusive_groups, each group a sequence of indices
\* into actions.

\* subparsers_action.choices of parser i, in insertion order. A parser has
\* a subparsers action exactly if it has subcommands; the action is the last
\* of its _actions.
Children(t, i) == SelectSeq(Idx(t.n), LAMBDA j : t.parent[j] = i)

\* subparsers_action._choices_actions of parser i: add_parser records a
\* choice there only when it was given help.
ChoicesActions(t, i) == SelectSeq(Children(t, i), LAMBDA j : t.help[j])

\* lines 56-66: the spellings of the flag-style options.
OptionsFlag(acts) ==
    Concat([k \in 1..Len(acts) |->
        IF Len(acts[k].option_strings) > 0
           /\ acts[k].nargs \in {"0", "None"}
           /\ acts[k].const \in {"True", "False"}
          THEN acts[k].option_strings ELSE <<>>])

\* lines 56-66: the spellings of all other options.
OptionsStore(acts) ==
    Concat([k \in 1..Len(acts) |->
        IF Len(acts[k].option_strings) > 0
           /\ ~(acts[k].nargs \in {"0", "None"}
                /\ acts[k].const \in {"True", "False"})
          THEN acts[k].option_strings ELSE <<>>])

\* line 92: the word the case statement of a nested function looks at.
CaseWord(level) == 1

BashItem(kind, name, node, level) ==
    [kind |-> kind, name |-> name, node |-> node, level |-> level,
     subcmds |-> <<>>, offered |-> <<>>, cword_eq |-> 0, case_word |-> 0,
     branches |-> <<>>, opts_flag |-> <<>>, opts_store |-> <<>>, prog |-> <<>>]

\* lines 44-131. The result is the script as the sequence of its function
\* definitions (and the complete line) in the order of the text; node, the
\* parser an item was generated for, is not part of the text. A function
\* for a parser with subcommands offers "$subcmds" followed by the words of
\* offered when COMP_CWORD is cword_eq, and else looks at
\* COMP_WORDS[case_word]; a leaf offers opts_flag and opts_store.
RECURSIVE generate_bash_completion(_, _, _, _, _)
generate_bash_completion(t, i, prog_name, func_name, level) ==
    LET acts == t.cfg[i].actions
        kids == Children(t, i)
        sub_func(j) == func_name \o <<"_">> \o t.name[j]
        subcommands == [k \in 1..Len(kids) |-> t.name[kids[k]]]
        script ==
            IF Len(kids) > 0
              THEN [BashItem("dispatch", func_name, i, level) EXCEPT
                      !.subcmds = subcommands,
                      !.cword_eq = level + 1,
                      !.offered = OptionsFlag(acts),
                      !.case_word = CaseWord(level),
                      !.branches = [k \in 1..Len(kids) |->
                                       [label |-> t.name[kids[k]],
                                        call |-> sub_func(kids[k])]]]
              ELSE [BashItem("leaf", func_name, i, level) EXCEPT
                      !.opts_flag = OptionsFlag(acts),
                      !.opts_store = OptionsStore(acts)]
        registration ==
            IF level = 0
              THEN <<[BashItem("complete", func_name, i, level) EXCEPT
                        !.prog = prog_name]>>
              ELSE <<>>
        sub_command_func ==
            Concat([k \in 1..Len(kids) |->
                generate_bash_completion(t, kids[k], prog_name,
                                         sub_func(kids[k]), level + 1)])
    IN  sub_command_func \o <<script>> \o registration

\* line 45: the name of the root function.
BashRootName(prog_name) == <<"_">> \o Replace(prog_name, "-", "_")

\* group_opts built with append(a.option_strings[0]) in place of extend:
\* only the first spelling of each member.
ZshGroupOptsFirstSpelling(acts, g) ==
    Concat([k \in 1..Len(g) |->
        IF Len(acts[g[k]].option_strings) > 0
          THEN <<acts[g[k]].option_strings[1]>> ELSE <<>>])

\* lines 150-153: group_opts, the spellings of the members of group g.
ZshGroupOpts(acts, g) ==
    Concat([k \in 1..Len(g) |-> acts[g[k]].option_strings])

\* lines 148-163: exclusive_opts once the groups have been gone through.
ZshExclusiveOpts(cfg) ==
    UNION {UNION {Range(cfg.actions[cfg.groups[m][k]].option_strings) :
                    k \in 1..Len(cfg.groups[m])} : m \in 1..Len(cfg.groups)}

ZshClause(kind, opts) ==
    [kind |-> kind, excl |-> <<>>, opts |-> opts, action |-> "",
     position |-> 0, choices |-> <<>>]

\* lines 149-163: one clause for each member of each group that has spellings.
ZshMutexLines(cfg) ==
    Concat([m \in 1..Len(cfg.groups) |->
        LET g == cfg.groups[m]
            group_opts == ZshGroupOpts(cfg.actions, g)
        IN  IF Len(group_opts) = 0 THEN <<>>
            ELSE Concat([k \in 1..Len(g) |->
                   IF Len(cfg.actions[g[k]].option_strings) > 0
                     THEN <<[ZshClause("mutex", cfg.actions[g[k]].option_strings)
                               EXCEPT !.excl = group_opts]>>
                     ELSE <<>>])])

\* line 169: the action was already dealt with as a member of a group.
ZshSkipped(cfg, a) ==
    \E o \in Range(a.option_strings) : o \in ZshExclusiveOpts(cfg)

\* lines 186-200: the clause of an option outside the groups.
ZshOptionLine(a) ==
    [ZshClause("option", a.option_strings) EXCEPT
       !.action = IF a.nargs \in {"?", "None"} /\ a.dest # ""
                    THEN "_files" ELSE ""]

\* lines 201-207: the clause of a positional.
ZshPositionalLine(a, position) ==
    [ZshClause("positional", <<>>) EXCEPT
       !.position = position,
       !.choices = a.choices,
       !.action = IF Len(a.choices) > 0 THEN "choices" ELSE "_files"]

\* lines 165-207, for the actions before the subparsers action.
ZshActionLines(cfg) ==
    LET acts == cfg.actions
        positional_count(k) ==
            1 + Cardinality({l \in 1..(k - 1) :
                               /\ Len(acts[l].option_strings) = 0
                               /\ ~ZshSkipped(cfg, acts[l])})
    IN  Concat([k \in 1..Len(acts) |->
            IF ZshSkipped(cfg, acts[k]) THEN <<>>
            ELSE IF Len(acts[k].option_strings) > 0
              THEN <<ZshOptionLine(acts[k])>>
              ELSE <<ZshPositionalLine(acts[k], positional_count(k))>>])

ZshItem(kind, name, node, level) ==
    [kind |-> kind, name |-> name, node |-> node, level |-> level,
     args_lines |-> <<>>, subcommand |-> <<>>, cases |-> <<>>]

\* lines 134-254. The result is the script as the sequence of its function
\* definitions, between the header and the footer, in the order of the text.
RECURSIVE generate_zsh_completion(_, _, _, _)
generate_zsh_completion(t, i, prog_name, level) ==
    LET cfg == t.cfg[i]
        kids == Children(t, i)
        state_cases == ChoicesActions(t, i)
        sub_prog(j) == prog_name \o <<"_">> \o t.name[j]
        args_lines ==
            ZshMutexLines(cfg)
            \o ZshActionLines(cfg)
            \o (IF Len(kids) > 0 THEN <<ZshClause("subcmd", <<>>)>> ELSE <<>>)
            \o <<ZshClause("rest", <<>>)>>
        own ==
            [ZshItem("function", <<"_">> \o prog_name, i, level) EXCEPT
               !.args_lines = args_lines,
               !.subcommand = [k \in 1..Len(state_cases) |->
                                  t.name[state_cases[k]]],
               !.cases = [k \in 1..Len(state_cases) |->
                            [label |-> t.name[state_cases[k]],
                             call |-> <<"_">> \o sub_prog(state_cases[k])]]]
        \* line 247: each nested function is put in front of what is there.
        sub_funcs ==
            Concat([k \in 1..Len(state_cases) |->
                generate_zsh_completion(
                    t, state_cases[Len(state_cases) + 1 - k],
                    sub_prog(state_cases[Len(state_cases) + 1 - k]),
                    level + 1)])
        lines == sub_funcs \o <<own>>
    IN  IF level = 0
          THEN <<ZshItem("header", prog_name, i, level)>> \o lines
               \o <<ZshItem("footer", <<"_">> \o prog_name, i, level)>>
          ELSE lines

\* The shell's view of the bash script: the definition of a name that is in
\* force once the whole script has been read is the last one in the text.
LastDef(out, name) ==
    LET ks == {k \in 1..Len(out) :
                 out[k].kind \in {"dispatch", "leaf"} /\ out[k].name = name}
    IN  IF ks = {} THEN 0 ELSE CHOOSE k \in ks : \A l \in ks : l <= k

\* The generated function out[k] run on COMP_WORDS[1..] = words and
\* COMP_CWORD = cword (lines 83-105 and 108-122 as the shell executes them):
\* the index of the function that ends up answering.
RECURSIVE BashRun(_, _, _, _)
BashRun(out, k, words, cword) ==
    LET f == out[k]
        w == IF f.case_word \in 1..Len(words) THEN words[f.case_word] ELSE <<>>
        hits == {b \in 1..Len(f.branches) : f.branches[b].label = w}
    IN  IF f.kind = "leaf" \/ cword = f.cword_eq \/ hits = {}
          THEN k
          ELSE LET b == CHOOSE x \in hits : \A y \in hits : x <= y
                   callee == LastDef(out, f.branches[b].call)
               IN  IF callee = 0 THEN k ELSE BashRun(out, callee, words, cword)

\* The subcommand names leading from the root to parser j.
RECURSIVE PathWords(_, _)
PathWords(t, j) ==
    IF t.parent[j] = 0 THEN <<>>
    ELSE Append(PathWords(t, t.parent[j]), t.name[j])

\* ------------------------------------------------------------------------
\* The definitions the generators are run on
\* ------------------------------------------------------------------------

\* Parsers in a tree (SpecTree).
MaxNodes == 4
\* Options and positionals of the root parser (SpecOptions).
MaxActions == 2
\* Mutually exclusive groups of the root parser (SpecOptions).
MaxGroups == 2

SubNames == {<<"a">>, <<"b">>, <<"a", "_", "b">>}

Progs == {<<"t">>, <<"t", "-", "x">>}

Action(option_strings, nargs, const, dest, choices) ==
    [option_strings |-> option_strings, nargs |-> nargs, const |-> const,
     dest |-> dest, choices |-> choices]

HelpAction == Action(<<"-h", "--help">>, "0", "None", "help", <<>>)
StoreTrue == Action(<<"--verbose">>, "0", "True", "verbose", <<>>)
Store == Action(<<"-o", "--output">>, "None", "None", "output", <<>>)
OneOrMore == Action(<<"--files">>, "+", "None", "files", <<>>)
Optional == Action(<<"--color">>, "?", "None", "color", <<>>)
Positional == Action(<<>>, "None", "None", "target", <<"debug", "release">>)

ActionPool == {HelpAction, StoreTrue, Store, OneOrMore, Optional, Positional}

SmallConfigs ==
    { [actions |-> <<HelpAction, StoreTrue>>, groups |-> <<>>],
      [actions |-> <<StoreTrue, Store>>, groups |-> << <<1, 2>> >>] }

\* The sequences of at most MaxActions different actions.
ActionSeqs(max_actions) ==
    UNION {{s \in [1..k -> ActionPool] : \A x, y \in 1..k : x # y => s[x] # s[y]}
             : k \in 0..max_actions}

\* The ways to put the options of acts into groups: g[k] is the group of
\* action k, 0 for none; groups are numbered in the order of their first
\* member, and positionals stay outside.
GroupAssignments(acts) ==
    {g \in [1..Len(acts) -> 0..MaxGroups] :
        /\ \A k \in 1..Len(acts) :
              Len(acts[k].option_strings) = 0 => g[k] = 0
        /\ \A k \in 1..Len(acts) :
              g[k] > 1 => \E l \in 1..(k - 1) : g[l] = g[k] - 1}

GroupsOf(acts, g) ==
    LET m == IF Len(acts) = 0 THEN 0
             ELSE CHOOSE x \in 0..MaxGroups :
                    /\ \A k \in 1..Len(acts) : g[k] <= x
                    /\ (x > 0 => \E k \in 1..Len(acts) : g[k] = x)
    IN  [x \in 1..m |-> SelectSeq(Idx(Len(acts)), LAMBDA k : g[k] = x)]

RichConfigs(max_actions) ==
    UNION {{[actions |-> acts, groups |-> GroupsOf(acts, g)] :
              g \in GroupAssignments(acts)} : acts \in ActionSeqs(max_actions)}

Parents(n) ==
    {p \in [1..n -> 0..(n - 1)] :
        /\ p[1] = 0
        /\ \A j \in 2..n : p[j] \in 1..(j - 1)}

NamesOf(n, p) ==
    {nm \in [1..n -> SubNames \cup {<<>>}] :
        /\ nm[1] = <<>>
        /\ \A j \in 2..n : nm[j] # <<>>
        /\ \A j, l \in 2..n : (j # l /\ p[j] = p[l]) => nm[j] # nm[l]}

HelpsOf(n) == {h \in [1..n -> BOOLEAN] : h[1]}

\* The trees of at most MaxNodes parsers with small option sets.
TreeDefs(max_nodes) ==
    UNION {UNION {{[n |-> n, parent |-> p, name |-> nm, help |-> h, cfg |-> c] :
                      nm \in NamesOf(n, p), h \in HelpsOf(n),
                      c \in [1..n -> SmallConfigs]}
                   : p \in Parents(n)} : n \in 1..max_nodes}

\* A root with any options and groups, alone or with one subcommand.
OptionDefs(max_actions) ==
    {[n |-> 1, parent |-> <<0>>, name |-> << <<>> >>, help |-> <<TRUE>>,
      cfg |-> <<c>>] : c \in RichConfigs(max_actions)}
    \cup
    {[n |-> 2, parent |-> <<0, 1>>, name |-> << <<>>, <<"a">> >>,
      help |-> <<TRUE, h>>, cfg |-> <<c, d>>] :
        c \in RichConfigs(max_actions), h \in BOOLEAN, d \in SmallConfigs}



\* main, line 268: generate_bash_completion(parser, prog).
GenerateBash(p) ==
    /\ UNCHANGED loaderVars
    /\ gen_pc = "start"
    /\ prog' = p
    /\ bash_out' = generate_bash_completion(parser, 1, p, BashRootName(p), 0)
    /\ gen_pc' = "bash"
    /\ UNCHANGED <<parser, zsh_out, comp, handled>>

\* main, line 271: generate_zsh_completion(parser, prog).
GenerateZsh(p) ==
    /\ UNCHANGED loaderVars
    /\ gen_pc = "start"
    /\ prog' = p
    /\ zsh_out' = generate_zsh_completion(parser, 1, p, 0)
    /\ gen_pc' = "zsh"
    /\ UNCHANGED <<parser, bash_out, comp, handled>>

\* The shell asks the registered function to complete the word that
\* follows the subcommand names leading to parser j.
BashComplete(j) ==
    /\ UNCHANGED loaderVars
    /\ gen_pc = "bash"
    /\ LET words == PathWords(parser, j)
           cword == Len(words) + 1
           reg == bash_out[Len(bash_out)]
       IN  /\ comp' = [node |-> j, words |-> words, cword |-> cword]
           /\ handled' = BashRun(bash_out, LastDef(bash_out, reg.name),
                                 words, cword)
    /\ gen_pc' = "completed"
    /\ UNCHANGED <<parser, prog, bash_out, zsh_out>>

GenNext ==
    \/ \E p \in Progs : GenerateBash(p)
    \/ \E p \in Progs : GenerateZsh(p)
    \/ \E j \in 1..parser.n : BashComplete(j)

LoaderNext ==
    \/ \E s \in Scripts : CallLoad(s)
    \/ TargetParseArgs
    \/ \E t \in TargetRaises : TargetRaise(t)
    \/ \E c \in {0, 2} : TargetExit(c)
    \/ TargetComplete
    \/ Handle
    \/ Finally
    \/ Return
    \/ \E a \in ArgvSet : MainStart(a)
    \/ MainShell
    \/ MainGenerate

GenStart(defs) ==
    /\ parser \in defs
    /\ gen_pc = "start"
    /\ prog = <<>>
    /\ bash_out = <<>>
    /\ zsh_out = <<>>
    /\ comp = NoComp
    /\ handled = 0
    /\ parse_args = "original"
    /\ captured_parser = None
    /\ original_parse_args = "original"
    /\ pc = "idle"
    /\ caller = "host"
    /\ target = "A"
    /\ exc = NoExc
    /\ guard_fired = FALSE
    /\ printed = <<>>
    /\ ret = NoRet
    /\ calls = 0
    /\ argv = <<>>
    /\ fs = [sh \in Shells |-> "absent"]
    /\ fs0 = fs
    /\ main_status = "none"
    /\ escaped = NoExc

TreeInit == GenStart(TreeDefs(MaxNodes))

OptionsInit == GenStart(OptionDefs(MaxActions))

\* The process: the loader and main.
Spec == LoaderInit /\ [][LoaderNext]_vars

\* The generators on trees of parsers.
SpecTree == TreeInit /\ [][GenNext]_vars

\* The generators on one parser's options and groups.
SpecOptions == OptionsInit /\ [][GenNext]_vars

LoaderInFlight == pc \in {"L_run", "L_handle", "L_finally", "L_check"}

\* ------------------------------------------------------------------------
\* Properties
\* ------------------------------------------------------------------------

\* C1: whenever no invocation of load_parser_safely is in flight, whatever
\* the earlier invocations were and however each of them ended,
\* argparse.ArgumentParser.parse_args is the original entry point.
C1_Restored == ~LoaderInFlight => parse_args = "original"

\* A second invocation has ended with an exception of the target that no
\* except clause catches.
C1_Witness ==
    /\ pc = "idle"
    /\ calls = 2
    /\ ret.kind = "raised"
    /\ ret.exc.type = "KeyboardInterrupt"
    /\ parse_args = "original"

\* C2: once the target's code has raised an exception that is not the
\* guard's signal, whatever its type, the invocation ends with the load-error
\* diagnostic printed and the process exiting with code 1. The types meant
\* are taken to be those deriving from Exception, which is the least the
\* claim covers.
C2_Claim ==
    (~LoaderInFlight /\ IsException(escaped.type) /\ ~escaped.guard)
    => /\ ret.kind = "raised"
       /\ ret.exc.type = "SystemExit"
       /\ ret.exc.code = 1
       /\ "Error loading script" \in Range(printed)

\* C3: an invocation during which the guard was not invoked and which
\* returns, returns None and has printed "parser not found".
C3_Claim ==
    (ret.kind = "returned" /\ ~guard_fired)
    => /\ ret.value = None
       /\ "parser not found" \in Range(printed)

\* C10: a run of main that fails leaves both output files as they were, and
\* a run that completes has written the generated text.
C10_Claim ==
    /\ main_status = "failed" => fs = fs0
    /\ main_status = "completed" => fs[argv[2]] = "text"

BashFuncs == {k \in 1..Len(bash_out) : bash_out[k].kind \in {"dispatch", "leaf"}}

ZshFuncs == {k \in 1..Len(zsh_out) : zsh_out[k].kind = "function"}

BashDone == gen_pc \in {"bash", "completed"}

ZshDone == gen_pc = "zsh"

\* C4: each generator emits exactly one function per parser of the tree, and
\* no two of the emitted functions have the same name.
C4_Claim ==
    /\ BashDone =>
         /\ Cardinality(BashFuncs) = parser.n
         /\ \A k, l \in BashFuncs :
               k # l => bash_out[k].name # bash_out[l].name
    /\ ZshDone =>
         /\ Cardinality(ZshFuncs) = parser.n
         /\ \A k, l \in ZshFuncs :
               k # l => zsh_out[k].name # zsh_out[l].name

\* C5: in both outputs, the function of a parser with subcommands has, for
\* each of its subcommands, a case label spelling the subcommand's name, whose
\* branch calls the function generated for that subcommand.
C5_Claim ==
    /\ BashDone =>
         \A j \in 2..parser.n :
           \E k, m \in BashFuncs :
             /\ bash_out[k].node = parser.parent[j]
             /\ bash_out[m].node = j
             /\ \E b \in 1..Len(bash_out[k].branches) :
                   /\ bash_out[k].branches[b].label = parser.name[j]
                   /\ bash_out[k].branches[b].call = bash_out[m].name
    /\ ZshDone =>
         \A j \in 2..parser.n :
           \E k, m \in ZshFuncs :
             /\ zsh_out[k].node = parser.parent[j]
             /\ zsh_out[m].node = j
             /\ \E b \in 1..Len(zsh_out[k].cases) :
                   /\ zsh_out[k].cases[b].label = parser.name[j]
                   /\ zsh_out[k].cases[b].call = zsh_out[m].name

\* The words a bash function hands to compgen besides the subcommand names.
CandidateWords(f) ==
    IF f.kind = "dispatch" THEN f.offered ELSE f.opts_flag \o f.opts_store

\* The option spellings declared at parser i.
Spellings(i) ==
    UNION {Range(parser.cfg[i].actions[k].option_strings) :
             k \in 1..Len(parser.cfg[i].actions)}

\* C6: in both outputs, every option spelling declared at a parser is among
\* the candidates of the function generated for that parser.
C6_Claim ==
    /\ BashDone =>
         \A i \in 1..parser.n : \A s \in Spellings(i) :
           \E k \in BashFuncs :
             /\ bash_out[k].node = i
             /\ s \in Range(CandidateWords(bash_out[k]))
    /\ ZshDone =>
         \A i \in 1..parser.n : \A s \in Spellings(i) :
           \E k \in ZshFuncs :
             /\ zsh_out[k].node = i
             /\ \E c \in 1..Len(zsh_out[k].args_lines) :
                   s \in Range(zsh_out[k].args_lines[c].opts)

C8_Claim ==
    /\ BashDone =>
         \A k \in BashFuncs :
           bash_out[k].kind = "dispatch" =>
             /\ bash_out[k].case_word = bash_out[k].level + 1
             /\ bash_out[k].case_word = bash_out[k].cword_eq
    /\ gen_pc = "completed" => bash_out[handled].node = comp.node

\* Action k of cfg is a member of one of its groups.
InGroup(cfg, k) ==
    \E m \in 1..Len(cfg.groups) : k \in Range(cfg.groups[m])

\* The option takes at least one value, or may take one.
ConsumesValue(a) == a.nargs # "0"

\* C9: in every function of the zsh output, the clause of an option outside
\* the groups has a value-completion action exactly if the option consumes a
\* value.
C9_Claim ==
    ZshDone =>
      \A f \in ZshFuncs :
        LET cfg == parser.cfg[zsh_out[f].node]
            lines == zsh_out[f].args_lines
        IN  \A k \in 1..Len(cfg.actions) :
              LET a == cfg.actions[k] IN
              (Len(a.option_strings) > 0 /\ ~InGroup(cfg, k)) =>
                \A c \in 1..Len(lines) :
                  lines[c].opts = a.option_strings =>
                    ((lines[c].action # "") <=> ConsumesValue(a))

====
